---- MODULE Spec2Model ----
(***************************************************************************)
(* A model of the CHIP-8 interpreter of src/src/cpu.rs.  The Cpu struct is *)
(* the record `cpu`; every opcode handler is an operator from a Cpu record *)
(* to the Cpu record it leaves behind, and tick() is the action Tick.      *)
(* Rust panics (mem / mem_mut out of range, direct memory indexing) are    *)
(* modelled by the *_panics predicates: a panicking tick aborts the        *)
(* process, recorded in `panicked`.                                        *)
(*                                                                         *)
(* The two big arrays are held zero-suppressed: `memory` is the function   *)
(* from the addresses of the nonzero bytes of [u8; 4096] to those bytes,   *)
(* and `screen` is the set of the indices of [bool; 2048] that are true.   *)
(* Each array has exactly one such value, so equality of records is        *)
(* equality of Cpu structs.                                                *)
(***************************************************************************)
EXTENDS Integers, Sequences, FiniteSets, TLC

VARIABLES
    cpu,        \* the Cpu struct (cpu.rs:7-20)
    panicked,   \* TRUE once a panic!() has aborted the process
    prev,       \* history: the Cpu struct as it was before the last tick()
    prev2,      \* history: the Cpu struct as it was before the tick() before that
    log,        \* history: the last MaxLog executed ticks: the opcode, the
                \* PC it was fetched at, the return stack it found and the
                \* PC it left
    last,       \* history: the last operation called on the Cpu, its
                \* arguments and what it returned
    since,      \* history: the values the last SDELAY and SSOUND stored, and
                \* the calls of tick_timers() and the buzzes since then
    host        \* the locals of main() in chip8.rs: where the 'running loop
                \* is, its counter and the SDL event queue; and history: the
                \* key state the queued events amount to, and the tick()
                \* calls between the calls of tick_timers()

vars == <<cpu, panicked, prev, prev2, log, last, since, host>>

----------------------------------------------------------------------------
(* Program constants *)

SCREEN_WIDTH == 64
SCREEN_HEIGHT == 32
INITIAL_PC == 512
INSTRUCTION_WIDTH == 2
FONTSET_ADDRESS == 80
MEMORY_SIZE == 4096
TICKS_PER_TIMER == 10
FONTSET ==
    << 240, 144, 144, 144, 240,
        32,  96,  32,  32, 112,
       240,  16, 240, 128, 240,
       240,  16, 240,  16, 240,
       144, 144, 240,  16,  16,
       240, 128, 240,  16, 240,
       240, 128, 240, 144, 240,
       240,  16,  32,  64,  64,
       240, 144, 240, 144, 240,
       240, 144, 240,  16, 240,
       240, 144, 240, 144, 144,
       224, 144, 224, 144, 224,
       240, 128, 128, 128, 240,
       224, 144, 144, 144, 224,
       240, 128, 240, 128, 240,
       240, 128, 240, 128, 128 >>

(* Bounds of the model *)

MaxStack == 4     \* JSR is not explored beyond this return-stack depth
MaxTimerCalls == 6   \* tick_timers() is not explored beyond this many calls per timer setting
MaxLog == 8       \* length of the window of executed ticks kept in `log`
MaxPending == 2   \* SDL events are not queued beyond this many
MaxPeriods == 3   \* the host loop is not explored beyond this many calls of tick_timers()

----------------------------------------------------------------------------
(* Fixed-width integer arithmetic of the Rust code *)

U8 == 2 ^ 8
U16 == 2 ^ 16

Bit(v, k) == (v \div (2 ^ k)) % 2

\* the 16 bits of a and b combined bit by bit by the truth table `table`
\* (table[p + 1][q + 1] is the result for the bits p and q)
Bitwise(a, b, table) ==
    LET r(k) == table[Bit(a, k) + 1][Bit(b, k) + 1] * (2 ^ k)
    IN  r(0) + r(1) + r(2) + r(3) + r(4) + r(5) + r(6) + r(7)
        + r(8) + r(9) + r(10) + r(11) + r(12) + r(13) + r(14) + r(15)

BitAnd(a, b) == Bitwise(a, b, <<(<<0, 0>>), (<<0, 1>>)>>)
BitOr(a, b) == Bitwise(a, b, <<(<<0, 1>>), (<<1, 1>>)>>)
BitXor(a, b) == Bitwise(a, b, <<(<<0, 1>>), (<<1, 0>>)>>)

wrapping_add16(a, b) == (a + b) % U16
wrapping_add8(a, b) == (a + b) % U8
\* u8::overflowing_add / overflowing_sub: <<result, overflow>>
overflowing_add(a, b) == <<(a + b) % U8, a + b >= U8>>
overflowing_sub(a, b) == <<(a - b + U8) % U8, a < b>>
\* u8 << k and u8 >> k (bits shifted out are lost)
shl8(a, k) == (a * (2 ^ k)) % U8
shr8(a, k) == a \div (2 ^ k)

Min(a, b) == IF a <= b THEN a ELSE b

----------------------------------------------------------------------------
(* Construction *)

\* impl Default for Cpu
Default ==
    [ register    |-> [r \in 0..15 |-> 0],
      delay       |-> 0,
      sound       |-> 0,
      i           |-> 0,
      pc          |-> INITIAL_PC,
      sp          |-> << >>,
      key         |-> [k \in 0..15 |-> FALSE],
      unknown_key |-> FALSE,
      screen      |-> {},
      memory      |-> [a \in {FONTSET_ADDRESS + k - 1 : k \in 1..Len(FONTSET)} |->
                         FONTSET[a - FONTSET_ADDRESS + 1]] ]

new == Default

\* key_mut(keycode), and the write of `value` through the reference it returns
key_mut(self, keycode, value) ==
    IF keycode < 15
    THEN [self EXCEPT !.key[keycode] = value]
    ELSE [self EXCEPT !.unknown_key = value]

\* a buzzer that sounds on every call while the sound timer runs
tick_timers_returns_level(self) == self.sound > 0

\* timers that wrap around below zero
tick_timers_wrapping(self) ==
    [self EXCEPT !.delay = (self.delay + U8 - 1) % U8,
                 !.sound = (self.sound + U8 - 1) % U8]

\* what tick_timers() returns: make_sound
tick_timers_returns(self) == self.sound = 1

\* tick_timers(): both timers count down to zero
tick_timers(self) ==
    [self EXCEPT !.delay = IF self.delay > 0 THEN self.delay - 1 ELSE self.delay,
                 !.sound = IF self.sound > 0 THEN self.sound - 1 ELSE self.sound]

\* load_rom panics when a byte falls outside memory
load_rom_panics(self, rom) == INITIAL_PC + Len(rom) > MEMORY_SIZE

load_rom(self, rom) ==
    LET written == {INITIAL_PC + k - 1 : k \in 1..Len(rom)}
        nonzero == {a \in written : rom[a - INITIAL_PC + 1] # 0}
    IN  [self EXCEPT !.memory =
            [a \in (DOMAIN self.memory \ written) \cup nonzero |->
                IF a \in written THEN rom[a - INITIAL_PC + 1] ELSE self.memory[a]]]

----------------------------------------------------------------------------
(* Accessors *)

reg(self, register) == self.register[register]
reg_mut(self, register, value) == [self EXCEPT !.register[register] = value]
mem_panics(address) == address >= MEMORY_SIZE
\* self.memory[address] as a value, and with value assigned to it
mem(self, address) ==
    IF address \in DOMAIN self.memory THEN self.memory[address] ELSE 0
mem_mut(self, address, value) ==
    LET kept == DOMAIN self.memory \ {address}
        dom == IF value = 0 THEN kept ELSE kept \cup {address}
    IN  [self EXCEPT !.memory =
            [a \in dom |-> IF a = address THEN value ELSE self.memory[a]]]
\* self.screen[address] as a value, and with value assigned to it
pixel(self, address) == address \in self.screen
pixel_mut(self, address, value) ==
    [self EXCEPT !.screen = IF value THEN {p : p \in self.screen \cup {address}}
                            ELSE {p : p \in self.screen \ {address}}]

\* self.pc = self.pc.wrapping_add(INSTRUCTION_WIDTH)
pc_advance(self) == [self EXCEPT !.pc = wrapping_add16(self.pc, INSTRUCTION_WIDTH)]

----------------------------------------------------------------------------
(* Instruction handlers, in the order of cpu.rs *)

\* 00E0
cls(self) ==
    pc_advance([self EXCEPT !.screen = {}])

\* a return that steps over the opcode when there is nothing to return to
rts_skipping(self) ==
    IF Len(self.sp) > 0
    THEN [self EXCEPT !.pc = self.sp[Len(self.sp)],
                      !.sp = SubSeq(self.sp, 1, Len(self.sp) - 1)]
    ELSE [self EXCEPT !.pc = wrapping_add16(self.pc, INSTRUCTION_WIDTH)]

\* 00EE: with nothing to return to, only logs an error
rts(self) ==
    IF Len(self.sp) > 0
    THEN [self EXCEPT !.pc = self.sp[Len(self.sp)],
                      !.sp = SubSeq(self.sp, 1, Len(self.sp) - 1)]
    ELSE self

\* 1NNN
jmp(self, address) == [self EXCEPT !.pc = address]

\* a call that saves the address of the call itself
jsr_saving_pc(self, address) ==
    [self EXCEPT !.sp = Append(self.sp, self.pc), !.pc = address]

\* 2NNN
jsr(self, address) ==
    [self EXCEPT !.sp = Append(self.sp, wrapping_add16(self.pc, INSTRUCTION_WIDTH)),
                 !.pc = address]

\* a skip that never skips
skeq_const_never(self, register_id, constant) ==
    [self EXCEPT !.pc = wrapping_add16(self.pc, INSTRUCTION_WIDTH)]

\* 3XRR
skeq_const(self, register_id, constant) ==
    pc_advance(IF reg(self, register_id) = constant THEN pc_advance(self) ELSE self)

\* 4XRR
skne_const(self, register_id, constant) ==
    pc_advance(IF reg(self, register_id) # constant THEN pc_advance(self) ELSE self)

\* 5XY0
skeq_reg(self, register_x_id, register_y_id) ==
    pc_advance(IF reg(self, register_x_id) = reg(self, register_y_id)
               THEN pc_advance(self) ELSE self)

\* 6XRR
mov_const(self, register_x_id, constant) ==
    pc_advance(reg_mut(self, register_x_id, constant))

\* an addition of a constant that sets VF when it overflows
add_const_carrying(self, register_id, constant) ==
    LET res == overflowing_add(reg(self, register_id), constant)
        flagged == IF res[2] THEN [self EXCEPT !.register[15] = 1] ELSE self
    IN  pc_advance(reg_mut(flagged, register_id, res[1]))

\* 7XRR
add_const(self, register_id, constant) ==
    pc_advance(reg_mut(self, register_id,
                       wrapping_add8(reg(self, register_id), constant)))

\* 8XY0
mov_reg(self, register_x_id, register_y_id) ==
    pc_advance(reg_mut(self, register_x_id, reg(self, register_y_id)))

\* 8XY1
or_reg(self, register_x_id, register_y_id) ==
    pc_advance(reg_mut(self, register_x_id,
                       BitOr(reg(self, register_x_id), reg(self, register_y_id))))

\* 8XY2
and_reg(self, register_x_id, register_y_id) ==
    pc_advance(reg_mut(self, register_x_id,
                       BitAnd(reg(self, register_x_id), reg(self, register_y_id))))

\* 8XY3
xor_reg(self, register_x_id, register_y_id) ==
    pc_advance(reg_mut(self, register_x_id,
                       BitXor(reg(self, register_x_id), reg(self, register_y_id))))

\* 8XY4: VF is written only when the addition overflows
add_reg(self, register_x_id, register_y_id) ==
    LET y == reg(self, register_y_id)
        x == reg(self, register_x_id)
        res == overflowing_add(x, y)
        flagged == IF res[2] THEN [self EXCEPT !.register[15] = 1] ELSE self
    IN  pc_advance(reg_mut(flagged, register_x_id, res[1]))

\* 8XY5: VF is written only when the subtraction does not borrow
sub_reg(self, register_x_id, register_y_id) ==
    LET y == reg(self, register_y_id)
        x == reg(self, register_x_id)
        res == overflowing_sub(x, y)
        flagged == IF ~res[2] THEN [self EXCEPT !.register[15] = 1] ELSE self
    IN  pc_advance(reg_mut(flagged, register_x_id, res[1]))

\* the shift that stores its result in VY
shr_into_y(self, register_x_id, register_y_id) ==
    LET x == reg(self, register_x_id)
        flagged == [self EXCEPT !.register[15] = BitAnd(x, 1)]
    IN  [reg_mut(flagged, register_y_id, shr8(x, 1))
            EXCEPT !.pc = wrapping_add16(self.pc, INSTRUCTION_WIDTH)]

\* 8XY6
shr(self, register_x_id, register_y_id) ==
    LET x == reg(self, register_x_id)
        flagged == [self EXCEPT !.register[15] = BitAnd(x, 1)]
    IN  pc_advance(reg_mut(flagged, register_x_id, shr8(x, 1)))

\* 8XY7: VF is written only when the subtraction does not borrow
rsb(self, register_x_id, register_y_id) ==
    LET y == reg(self, register_y_id)
        x == reg(self, register_x_id)
        res == overflowing_sub(y, x)
        flagged == IF ~res[2] THEN [self EXCEPT !.register[15] = 1] ELSE self
    IN  pc_advance(reg_mut(flagged, register_x_id, res[1]))

\* 8XYE: VF is written only when bit 7 is set
shl(self, register_x_id, register_y_id) ==
    LET x == reg(self, register_x_id)
        flagged == IF BitAnd(x, 128) # 0
                   THEN [self EXCEPT !.register[15] = 1] ELSE self
    IN  pc_advance(reg_mut(flagged, register_x_id, shl8(x, 1)))

\* 9XY0
skne_reg(self, register_x_id, register_y_id) ==
    pc_advance(IF reg(self, register_x_id) # reg(self, register_y_id)
               THEN pc_advance(self) ELSE self)

\* ANNN
mvi(self, value) == pc_advance([self EXCEPT !.i = BitAnd(value, 4095)])

\* BNNN
jmi(self, value) ==
    [self EXCEPT !.pc = wrapping_add16(reg(self, 0), BitAnd(value, 4095))]

\* CXKK: random is the byte rand::random::<u8>() returns
rand(self, register_x_id, value, random) ==
    pc_advance(reg_mut(self, register_x_id, BitAnd(random, value)))

\* a blitter that lights the cell whatever it held
blit_pixel_or(self, pixel_address, current_pixel) ==
    pixel_mut(self, pixel_address, TRUE)

\* self.screen[pixel_address] = !current_pixel
blit_pixel(self, pixel_address, current_pixel) ==
    pixel_mut(self, pixel_address, ~current_pixel)

\* a blitter that takes bit 0 of the sprite row for the leftmost pixel
sprite_pixel_step_lsb(self, x, y, sprite_row, index, i) ==
    LET sprite_pixel == BitAnd(shr8(sprite_row, i), 1)
        sprite_x == (x + (index % 8)) % SCREEN_WIDTH
        sprite_y == (y + (index \div 8)) % SCREEN_HEIGHT
        pixel_address == sprite_y * SCREEN_WIDTH + sprite_x
        current_pixel == pixel(self, pixel_address)
        flagged == IF current_pixel THEN reg_mut(self, 15, 1) ELSE self
    IN  IF sprite_pixel # 0
        THEN blit_pixel(flagged, pixel_address, current_pixel)
        ELSE self

\* the body of the inner loop of sprite() for one pixel: column index % 8 of
\* line index / 8, with i = index % 8
sprite_pixel_step(self, x, y, sprite_row, index, i) ==
    LET sprite_pixel == BitAnd(shl8(sprite_row, i), 128)
        sprite_x == (x + (index % 8)) % SCREEN_WIDTH
        sprite_y == (y + (index \div 8)) % SCREEN_HEIGHT
        pixel_address == sprite_y * SCREEN_WIDTH + sprite_x
        current_pixel == pixel(self, pixel_address)
        flagged == IF current_pixel THEN reg_mut(self, 15, 1) ELSE self
    IN  IF sprite_pixel # 0
        THEN blit_pixel(flagged, pixel_address, current_pixel)
        ELSE self

\* the inner loop of sprite(), `for i in 0..8`, on the line whose first pixel
\* has index `index`
sprite_row_pixels(self, x, y, sprite_row, index) ==
    LET step(s, i) == sprite_pixel_step(s, x, y, sprite_row, index + i, i)
    IN  step(step(step(step(step(step(step(step(self, 0), 1), 2), 3), 4), 5), 6), 7)

RECURSIVE sprite_lines(_, _, _, _, _)
\* the outer loop of sprite(), `for line in 0..num_lines`, for the lines
\* lo..hi-1 in order; x and y were read from the registers before the loops.
\* (Lines lo..mid-1 run first and lines mid..hi-1 start from the Cpu they
\* leave: the same sequence of lines, evaluated in halves so that the
\* evaluation stays shallow; the Cpu in between is bound through a singleton
\* set, which makes TLC compute it before going on.)
sprite_lines(self, x, y, lo, hi) ==
    IF hi <= lo THEN self
    ELSE IF hi = lo + 1
         THEN sprite_row_pixels(self, x, y, mem(self, self.i + lo), 8 * lo)
         ELSE LET mid == (lo + hi) \div 2
              IN  CHOOSE after \in
                      { sprite_lines(before, x, y, mid, hi) :
                          before \in {sprite_lines(self, x, y, lo, mid)} } : TRUE

\* DXYN: mem() panics on the first line read outside memory
sprite_panics(self, num_lines) ==
    \E line \in 0..(num_lines - 1) : mem_panics(self.i + line)

sprite(self, register_x_id, register_y_id, num_lines) ==
    pc_advance(sprite_lines(self, reg(self, register_x_id),
                            reg(self, register_y_id), 0, num_lines))

\* EX9E
skpr(self, key_id) ==
    LET k == reg(self, key_id)
    IN  pc_advance(IF k > 15 THEN self
                   ELSE IF self.key[k] THEN pc_advance(self) ELSE self)

\* EXA1
skup(self, key_id) ==
    LET k == reg(self, key_id)
    IN  pc_advance(IF k > 15 THEN self
                   ELSE IF ~self.key[k] THEN pc_advance(self) ELSE self)

\* FX07
gdelay(self, register_x_id) ==
    pc_advance(reg_mut(self, register_x_id, self.delay))

\* a wait that takes the last pressed key
key_last_pressed(self, register_x_id) ==
    LET pressed == {k \in 0..15 : self.key[k]}
    IN  IF pressed # {}
        THEN LET highest == CHOOSE k \in pressed : \A j \in pressed : k >= j
             IN  [reg_mut(self, register_x_id, highest)
                    EXCEPT !.pc = wrapping_add16(self.pc, INSTRUCTION_WIDTH)]
        ELSE self

\* FX0A: the first pressed key, if any
key(self, register_x_id) ==
    LET pressed == {k \in 0..15 : self.key[k]}
    IN  IF pressed # {}
        THEN LET first == CHOOSE k \in pressed : \A j \in pressed : k <= j
             IN  pc_advance(reg_mut(self, register_x_id, first))
        ELSE self

\* FX15
sdelay(self, register_x_id) ==
    pc_advance([self EXCEPT !.delay = reg(self, register_x_id)])

\* FX18
ssound(self, register_x_id) ==
    pc_advance([self EXCEPT !.sound = reg(self, register_x_id)])

\* FX1E
adi(self, register_x_id) ==
    pc_advance([self EXCEPT !.i = wrapping_add16(self.i, reg(self, register_x_id))])

\* a font of four bytes per character
font_stride_four(self, register_x_id) ==
    pc_advance([self EXCEPT !.i = FONTSET_ADDRESS + reg(self, register_x_id) * 4])

\* FX29
font(self, register_x_id) ==
    pc_advance([self EXCEPT !.i = FONTSET_ADDRESS + reg(self, register_x_id) * 5])

\* a conversion that stores the digits lowest first
bcd_reversed(self, register_x_id) ==
    IF self.i >= MEMORY_SIZE - 3
    THEN [self EXCEPT !.pc = wrapping_add16(self.pc, INSTRUCTION_WIDTH)]
    ELSE LET x == reg(self, register_x_id)
             i == self.i
         IN  [mem_mut(mem_mut(mem_mut(self, i, x % 10), i + 1, (x \div 10) % 10),
                      i + 2, x \div 100)
                EXCEPT !.pc = wrapping_add16(self.pc, INSTRUCTION_WIDTH)]

\* a conversion that skips the write already at I = 4092
bcd_skipping(self, register_x_id) ==
    IF self.i >= MEMORY_SIZE - 4
    THEN [self EXCEPT !.pc = wrapping_add16(self.pc, INSTRUCTION_WIDTH)]
    ELSE LET x == reg(self, register_x_id)
             i == self.i
         IN  [mem_mut(mem_mut(mem_mut(self, i, x \div 100), i + 1, (x \div 10) % 10),
                      i + 2, x % 10)
                EXCEPT !.pc = wrapping_add16(self.pc, INSTRUCTION_WIDTH)]

\* FX33
bcd(self, register_x_id) ==
    IF self.i >= MEMORY_SIZE - 3 THEN pc_advance(self)
    ELSE LET x == reg(self, register_x_id)
             x100 == x \div 100
             x10 == (x - (x100 * 100)) \div 10
             x1 == x - (x100 * 100) - (x10 * 10)
             i == self.i
         IN  pc_advance(mem_mut(mem_mut(mem_mut(self, i, x100), i + 1, x10),
                                i + 2, x1))

\* the bound of the loops of str() and ldr(): taken from the VALUE of V[X]
reg_bound(self, register_x_id) == Min(reg(self, register_x_id), 15)

\* FX55 / FX65: self.memory[self.i] panics once self.i leaves memory
str_panics(self, register_x_id) ==
    self.i + reg_bound(self, register_x_id) >= MEMORY_SIZE

RECURSIVE str_loop(_, _, _)
str_loop(self, i, bound) ==
    IF i > bound THEN self
    ELSE str_loop([mem_mut(self, self.i, reg(self, i)) EXCEPT !.i = self.i + 1],
                  i + 1, bound)

str(self, register_x_id) ==
    pc_advance(str_loop(self, 0, reg_bound(self, register_x_id)))

ldr_panics(self, register_x_id) ==
    self.i + reg_bound(self, register_x_id) >= MEMORY_SIZE

RECURSIVE ldr_loop(_, _, _)
ldr_loop(self, i, bound) ==
    IF i > bound THEN self
    ELSE ldr_loop([reg_mut(self, i, mem(self, self.i)) EXCEPT !.i = self.i + 1],
                  i + 1, bound)

ldr(self, register_x_id) ==
    pc_advance(ldr_loop(self, 0, reg_bound(self, register_x_id)))

----------------------------------------------------------------------------
(* Fetch, decode, dispatch *)

fetch_panics(self) == mem_panics(self.pc) \/ mem_panics(self.pc + 1)

\* (mem(pc) << 8) + mem(pc + 1)
fetch(self) == mem(self, self.pc) * 256 + mem(self, self.pc + 1)

op_address(opcode) == BitAnd(opcode, 4095)
op_value(opcode) == BitAnd(opcode, 255)
op_x(opcode) == BitAnd(opcode \div 256, 15)
op_y(opcode) == BitAnd(opcode \div 16, 15)
op_n(opcode) == BitAnd(opcode, 15)

\* the handler tick() selects for opcode, applied to self
dispatch(self, opcode, random) ==
    LET address == op_address(opcode)
        value == op_value(opcode)
        x == op_x(opcode)
        y == op_y(opcode)
        n == op_n(opcode)
        group == BitAnd(opcode, 61440)
    IN  CASE group = 0 ->
                (CASE opcode = 224 -> cls(self)
                   [] opcode = 238 -> rts(self)
                   [] OTHER -> self)
          [] group = 4096 -> jmp(self, address)
          [] group = 8192 -> jsr(self, address)
          [] group = 12288 -> skeq_const(self, x, value)
          [] group = 16384 -> skne_const(self, x, value)
          [] group = 20480 -> skeq_reg(self, x, y)
          [] group = 24576 -> mov_const(self, x, value)
          [] group = 28672 -> add_const(self, x, value)
          [] group = 32768 ->
                (CASE n = 0 -> mov_reg(self, x, y)
                   [] n = 1 -> or_reg(self, x, y)
                   [] n = 2 -> and_reg(self, x, y)
                   [] n = 3 -> xor_reg(self, x, y)
                   [] n = 4 -> add_reg(self, x, y)
                   [] n = 5 -> sub_reg(self, x, y)
                   [] n = 6 -> shr(self, x, y)
                   [] n = 7 -> rsb(self, x, y)
                   [] n = 14 -> shl(self, x, y)
                   [] OTHER -> self)
          [] group = 36864 -> skne_reg(self, x, y)
          [] group = 40960 -> mvi(self, address)
          [] group = 45056 -> jmi(self, address)
          [] group = 49152 -> rand(self, x, value, random)
          [] group = 53248 -> sprite(self, x, y, n)
          [] group = 57344 ->
                (CASE value = 158 -> skpr(self, x)
                   [] value = 161 -> skup(self, x)
                   [] OTHER -> self)
          [] group = 61440 ->
                (CASE value = 7 -> gdelay(self, x)
                   [] value = 10 -> key(self, x)
                   [] value = 21 -> sdelay(self, x)
                   [] value = 24 -> ssound(self, x)
                   [] value = 30 -> adi(self, x)
                   [] value = 41 -> font(self, x)
                   [] value = 51 -> bcd(self, x)
                   [] value = 85 -> str(self, x)
                   [] value = 101 -> ldr(self, x)
                   [] OTHER -> self)
          [] OTHER -> self

\* the handlers that index memory without a guard
dispatch_panics(self, opcode) ==
    LET x == op_x(opcode)
        n == op_n(opcode)
        value == op_value(opcode)
        group == BitAnd(opcode, 61440)
    IN  \/ group = 53248 /\ sprite_panics(self, n)
        \/ group = 61440 /\ value = 85 /\ str_panics(self, x)
        \/ group = 61440 /\ value = 101 /\ ldr_panics(self, x)

tick_panics(self) == fetch_panics(self) \/ dispatch_panics(self, fetch(self))

tick(self, random) == dispatch(self, fetch(self), random)

----------------------------------------------------------------------------
(* ROM images: the inputs of the model *)

\* the 16-bit word of four nibbles, and an instruction with a byte operand
Op(a, b, c, d) == a * 4096 + b * 256 + c * 16 + d
OpK(a, x, kk) == a * 4096 + x * 256 + kk

\* a ROM is a sequence of bytes; words are stored big-endian
RomOfWords(words) ==
    [k \in 1..(2 * Len(words)) |->
        IF k % 2 = 1 THEN words[(k + 1) \div 2] \div 256
        ELSE words[k \div 2] % 256]

\* the ROM with word cells[a] at each address a of DOMAIN cells, zero elsewhere
RomOfCells(cells) ==
    LET top == CHOOSE a \in DOMAIN cells : \A b \in DOMAIN cells : b <= a
    IN  [k \in 1..(top + 2 - INITIAL_PC) |->
            LET a == INITIAL_PC + k - 1
            IN  IF a \in DOMAIN cells THEN cells[a] \div 256
                ELSE IF (a - 1) \in DOMAIN cells THEN cells[a - 1] % 256
                ELSE 0]

\* the bytes rand::random::<u8>() is taken to return
RandomBytes == {0, 165, 255}

\* one instruction of every kind tick() decodes, and words it does not decode
Sampler ==
    { 224, 238, Op(1, 4, 0, 0), Op(2, 4, 0, 0),
      OpK(3, 0, 0), OpK(3, 0, 1), OpK(4, 0, 0), OpK(4, 0, 1),
      Op(5, 0, 1, 0), Op(5, 0, 15, 0), OpK(6, 2, 255), OpK(7, 0, 2),
      Op(8, 0, 1, 0), Op(8, 0, 1, 1), Op(8, 0, 1, 2), Op(8, 0, 1, 3),
      Op(8, 0, 1, 4), Op(8, 0, 1, 5), Op(8, 0, 1, 6), Op(8, 0, 1, 7),
      Op(8, 0, 1, 14), Op(9, 0, 1, 0), Op(9, 0, 15, 0),
      Op(10, 3, 0, 0), Op(11, 3, 0, 0), OpK(12, 1, 15), Op(13, 0, 1, 5),
      OpK(14, 1, 158), OpK(14, 1, 161),
      OpK(15, 1, 7), OpK(15, 1, 10), OpK(15, 0, 21), OpK(15, 0, 24),
      OpK(15, 0, 30), OpK(15, 1, 41), OpK(15, 0, 51), OpK(15, 1, 85),
      OpK(15, 1, 101),
      0, 1, Op(0, 0, 14, 1), Op(8, 0, 1, 8), Op(8, 0, 1, 15),
      OpK(14, 0, 0), OpK(14, 1, 159), OpK(15, 0, 0), OpK(15, 1, 102) }

\* register and index presets a program starts with
Preludes ==
    { << >>,
      << OpK(6, 0, 255), OpK(6, 15, 1), Op(10, 0, 5, 0) >>,
      << OpK(6, 0, 1), OpK(6, 1, 1), Op(10, 15, 15, 14) >> }

Roms == { RomOfWords(pre \o <<w>>) : pre \in Preludes, w \in Sampler }

\* Arithmetic programs: V0 = a, V1 = b, VF = f, then one ALU opcode on a
\* register pair; or V0 = a, V1 = b and two ALU opcodes in a row, the second
\* finding the VF the first one left
AluBytes == {0, 1, 127, 128, 255}
AluFlags == {0, 1, 200}
AluKinds == {4, 5, 6, 7, 14}
AluPairs == {<<0, 1>>, <<1, 0>>, <<0, 0>>, <<0, 15>>, <<15, 0>>}

AluRoms ==
    { RomOfWords(<< OpK(6, 0, a), OpK(6, 1, b), OpK(6, 15, f),
                    Op(8, xy[1], xy[2], n) >>) :
        a \in AluBytes, b \in AluBytes, f \in AluFlags,
        xy \in AluPairs, n \in AluKinds }
    \cup
    { RomOfWords(<< OpK(6, 0, a), OpK(6, 1, b), Op(8, 0, 1, m), Op(8, 0, 1, n) >>) :
        a \in AluBytes, b \in AluBytes, m \in AluKinds, n \in AluKinds }

\* Drawing programs: V0 = vx, V1 = vy, VF = f, I = addr, then the same DRW
\* twice; or a DRW, a move of V0 by one column and the DRW twice more, so that
\* sprites land on lit cells; or the same with VF as the X register
DrawXs == {0, 60, 70, 254}
DrawYs == {0, 30, 40, 255}
DrawHeights == {0, 1, 5, 15}
DrawAddrs == {80, 95, 512, 4092}
DrawFlags == {0, 1}

DrawRoms ==
    { RomOfWords(<< OpK(6, 0, vx), OpK(6, 1, vy), OpK(6, 15, f), OpK(10, 0, 0) + addr,
                    Op(13, 0, 1, n), Op(13, 0, 1, n) >>) :
        vx \in DrawXs, vy \in DrawYs, f \in DrawFlags,
        addr \in DrawAddrs, n \in DrawHeights }
    \cup
    { RomOfWords(<< OpK(6, 0, vx), OpK(6, 1, vy), OpK(10, 0, 0) + addr,
                    Op(13, 0, 1, n), OpK(7, 0, 1), Op(13, 0, 1, n), Op(13, 0, 1, n) >>) :
        vx \in DrawXs, vy \in DrawYs, addr \in DrawAddrs, n \in DrawHeights }
    \cup
    { RomOfWords(<< OpK(6, 15, vx), OpK(6, 1, vy), OpK(10, 0, 0) + addr,
                    Op(13, 15, 1, n), Op(13, 15, 1, n), Op(13, 15, 1, n) >>) :
        vx \in DrawXs, vy \in DrawYs, addr \in DrawAddrs, n \in DrawHeights }

\* Call programs: a chain of calls 0x200 -> t1 -> ... -> tn, each target
\* calling the next one (after `pad` bytes of other instructions) and the last
\* one returning; every call is followed by a return, the one at 0x202 finding
\* the stack empty.  Also a call of itself, and a loop that calls twice from
\* the same address.
StackTargets == {528, 768, 1024, 1072, 1088}
StackPads == {0, 2}
MaxChain == 4

RECURSIVE Chains(_)
Chains(n) ==
    IF n = 0 THEN { << >> }
    ELSE { Append(c, t) : c \in Chains(n - 1), t \in StackTargets }

ChainCells(ts, pad) ==
    LET n == Len(ts)
        site(k) == IF k = 0 THEN INITIAL_PC ELSE ts[k] + pad
        cells == { <<site(k), OpK(2, 0, 0) + ts[k + 1]>> : k \in 0..(n - 1) }
                 \cup { <<site(k) + 2, 238>> : k \in 0..(n - 1) }
                 \cup { <<ts[n], 238>> }
                 \cup { <<ts[k], OpK(7, 0, 1)>> : k \in { j \in 1..(n - 1) : pad = 2 } }
    IN  [a \in { c[1] : c \in cells } |-> (CHOOSE c \in cells : c[1] = a)[2]]

StackRoms ==
    { RomOfCells(ChainCells(ts, pad)) :
        ts \in { c \in UNION { Chains(n) : n \in 1..MaxChain } :
                    \A j, k \in 1..Len(c) : j # k => c[j] # c[k] },
        pad \in StackPads }
    \cup
    { RomOfWords(<< Op(2, 2, 0, 0) >>),
      RomOfWords(<< OpK(7, 0, 1), OpK(3, 0, 3), Op(2, 2, 0, 0), 238 >>) }

\* Skip programs: V0 = a, V1 = b, VF = a, then one of the four skips on a
\* register and a constant or on a register pair
SkipBytes == {0, 1, 127, 255}
SkipRegs == {0, 1, 15}
SkipPairs == {<<0, 1>>, <<1, 0>>, <<0, 0>>, <<0, 15>>, <<15, 1>>}

SkipRoms ==
    { RomOfWords(<< OpK(6, 0, a), OpK(6, 1, b), OpK(6, 15, a), OpK(g, x, kk) >>) :
        a \in SkipBytes, b \in SkipBytes, g \in {3, 4}, x \in SkipRegs,
        kk \in SkipBytes }
    \cup
    { RomOfWords(<< OpK(6, 0, a), OpK(6, 1, b), OpK(6, 15, a),
                    Op(g, xy[1], xy[2], 0) >>) :
        a \in SkipBytes, b \in SkipBytes, g \in {5, 9}, xy \in SkipPairs }

\* Keypad programs: V0 = a, then SKPR V0 or SKUP V0, then a jump out of memory
\* on either path, at which tick() panics
KeyBytes == {3, 15, 19, 255}

KeyRoms ==
    { RomOfWords(<< OpK(6, 0, a), OpK(14, 0, kk), Op(1, 15, 15, 15),
                    Op(1, 15, 15, 15) >>) :
        a \in KeyBytes, kk \in {158, 161} }

\* Waiting programs: V[x] = 200, WAITKEY V[x], SKPR V[x], SKUP V[x]
WaitRegs == {1, 15}

WaitRoms ==
    { RomOfWords(<< OpK(6, x, 200), OpK(15, x, 10), OpK(14, x, 158),
                    OpK(14, x, 161), Op(1, 15, 15, 15), Op(1, 15, 15, 15) >>) :
        x \in WaitRegs }

\* Timer programs: V0 = v, SSOUND V0, V1 = d, SDELAY V1, GDELAY V2, then
\* either GDELAY V2 again or a second SSOUND V0 and GDELAY V2
TimerSounds == {0, 1, 2, 3, 255}
TimerDelays == {0, 1, 3, 255}

TimerRoms ==
    { RomOfWords(<< OpK(6, 0, v), OpK(15, 0, 24), OpK(6, 1, d), OpK(15, 1, 21),
                    OpK(15, 2, 7) >> \o tail \o << Op(1, 15, 15, 15) >>) :
        v \in TimerSounds, d \in TimerDelays,
        tail \in { << OpK(15, 2, 7) >>, << OpK(15, 0, 24), OpK(15, 2, 7) >> } }

\* Register file programs: V0 = a, V1 = 9, V2 = c, I = addr, then STR X or
\* LDR X, and a jump out of memory
StoreBytes == {0, 1, 2, 7, 255}
StoreAddrs == {80, 768, 4090}
StoreRegs == {0, 1, 2, 15}

StoreRoms ==
    { RomOfWords(<< OpK(6, 0, a), OpK(6, 1, 9), OpK(6, 2, c), OpK(10, 0, 0) + addr,
                    OpK(15, x, kk), Op(1, 15, 15, 15) >>) :
        a \in StoreBytes, c \in StoreBytes, addr \in StoreAddrs,
        x \in StoreRegs, kk \in {85, 101} }

\* Conversion programs: V[x] = v, I = addr, BCD x; and V0 = v, I = 0xFFF,
\* ADI V0, BCD 0, which runs BCD with I = 4095 + v; then a jump out of memory
BcdBytes == 0..255
BcdRegs == {0, 11}
BcdAddrs == {768, 4092, 4093, 4095}

BcdRoms ==
    { RomOfWords(<< OpK(6, x, v), OpK(10, 0, 0) + addr, OpK(15, x, 51),
                    Op(1, 15, 15, 15) >>) :
        v \in BcdBytes, x \in BcdRegs, addr \in BcdAddrs }
    \cup
    { RomOfWords(<< OpK(6, 0, v), Op(10, 15, 15, 15), OpK(15, 0, 30),
                    OpK(15, 0, 51), Op(1, 15, 15, 15) >>) :
        v \in BcdBytes }

\* Indexed jump programs: V0 = v, then JMI nnn; the jump lands on itself, on
\* the program, on empty memory or beyond memory
JmiRoms ==
    { RomOfWords(<< OpK(6, 0, v), OpK(11, 0, 0) + nnn >>) :
        v \in {0, 1, 2, 255},
        nnn \in {0, 2, 512, 514, 768, 3840, 3841, 4094, 4095} }

\* Font programs: V[x] = d, FONT x; the same after a BCD has overwritten the
\* glyph of 0 at 0x050; and a ROM of the largest size that fits, 0xE00 bytes,
\* whose last word jumps to itself
FontRoms ==
    { RomOfWords(<< OpK(6, x, d), OpK(15, x, 41), Op(1, 15, 15, 15) >>) :
        x \in {0, 15}, d \in (0..16) \cup {255} }
    \cup
    { RomOfWords(<< OpK(6, 0, d), Op(10, 0, 5, 0), OpK(15, 0, 51), OpK(15, 0, 41),
                    Op(1, 15, 15, 15) >>) :
        d \in {0, 1, 9} }
    \cup
    { RomOfCells((512 :> OpK(6, 15, d)) @@ (514 :> OpK(15, 15, 41)) @@
                 (516 :> Op(1, 15, 15, 14)) @@ (4094 :> Op(1, 15, 15, 14))) :
        d \in {10, 15} }

\* Constant addition programs: V[x] = a, VF = f (which is V[x] when x = F),
\* then ADD.K x, kk and a jump out of memory
AddConstRoms ==
    { RomOfWords(<< OpK(6, x, a), OpK(6, 15, f), OpK(7, x, kk), Op(1, 15, 15, 15) >>) :
        x \in {0, 7, 15}, a \in {0, 1, 128, 255}, f \in {0, 1, 200},
        kk \in {0, 1, 128, 255} }

\* Programs that run off the end of memory: a ROM of 0xE00 bytes that jumps
\* to `entry` near 0xFFE, from where every word up to 0xFFE is `w`, an opcode
\* that is no jump
EndWords ==
    { 224, OpK(6, 0, 1), OpK(7, 1, 255), OpK(3, 0, 0), OpK(4, 0, 0),
      Op(5, 0, 1, 0), Op(9, 0, 1, 0), Op(8, 0, 1, 4), Op(10, 1, 2, 3),
      OpK(12, 0, 15), Op(13, 0, 0, 1), OpK(14, 0, 161), OpK(15, 0, 7),
      OpK(15, 0, 30), OpK(15, 0, 41) }

EndRoms ==
    { RomOfCells([a \in {512} \cup {e \in entry..4094 : e % 2 = 0} |->
                    IF a = 512 THEN OpK(1, 0, 0) + entry ELSE w]) :
        entry \in {4090, 4092, 4094}, w \in EndWords }

\* Programs the host loop runs: V0 = v, SSOUND V0 and a jump to itself
HostRoms ==
    { RomOfWords(<< OpK(6, 0, v), OpK(15, 0, 24), Op(1, 2, 0, 4) >>) : v \in {1, 3} }

----------------------------------------------------------------------------
(* The state machine *)

\* the host's keyboard: map_key() of chip8.rs on the SDL keycodes
map_key(keycode) ==
    CASE keycode = "Num0" -> 0  [] keycode = "Num1" -> 1
      [] keycode = "Num2" -> 2  [] keycode = "Num3" -> 3
      [] keycode = "Num4" -> 4  [] keycode = "Num5" -> 5
      [] keycode = "Num6" -> 6  [] keycode = "Num7" -> 7
      [] keycode = "Num8" -> 8  [] keycode = "Num9" -> 9
      [] keycode = "A" -> 10    [] keycode = "B" -> 11
      [] keycode = "C" -> 12    [] keycode = "D" -> 13
      [] keycode = "E" -> 14    [] keycode = "F" -> 15
      [] OTHER -> 255

\* the keys struck on the host keyboard and the codes key_mut() is called
\* with: a hex key, the hex key F and a key that is none of the sixteen; and
\* the two hex keys struck while a program waits for a key
HostKeys == {"Num3", "F", "Space"}
KeyCodes == { map_key(k) : k \in HostKeys }
WaitKeys == {"Num3", "E"}
WaitCodes == { map_key(k) : k \in WaitKeys }

\* no operation yet; no timer set, no call of tick_timers() yet
NoOperation == [op |-> "none", keycode |-> 0, value |-> FALSE, returned |-> FALSE]
NoTimers ==
    [delay_set |-> 0, delay_calls |-> 0, sound_set |-> 0, sound_calls |-> 0,
     buzzes |-> 0]

\* main() before the 'running loop: counter = 0 and no event queued
NoKeys == [key |-> [k \in 0..15 |-> FALSE], unknown_key |-> FALSE]
HostStart ==
    [at |-> "poll", counter |-> 0, pending |-> << >>,
     arrived |-> NoKeys, stamped |-> NoKeys,
     ticks_since |-> 0, timer_calls |-> 0, gap |-> 0]

InitWith(roms) ==
    \E rom \in roms :
        /\ cpu = load_rom(new, rom)
        /\ prev = load_rom(new, rom)
        /\ prev2 = load_rom(new, rom)
        /\ panicked = FALSE
        /\ log = << >>
        /\ last = NoOperation
        /\ since = NoTimers
        /\ host = HostStart

Init == InitWith(Roms)

\* the window of the last MaxLog entries
Logged(entry) ==
    IF Len(log) < MaxLog THEN Append(log, entry) ELSE Append(Tail(log), entry)

\* the timer history after a tick() that executed `opcode`: SDELAY (FX15) and
\* SSOUND (FX18) start a new count
SinceTick(opcode) ==
    LET x == op_x(opcode)
    IN  IF BitAnd(opcode, 61440) = 61440 /\ op_value(opcode) = 21
        THEN [since EXCEPT !.delay_set = reg(cpu, x), !.delay_calls = 0]
        ELSE IF BitAnd(opcode, 61440) = 61440 /\ op_value(opcode) = 24
        THEN [since EXCEPT !.sound_set = reg(cpu, x), !.sound_calls = 0,
                           !.buzzes = 0]
        ELSE since

\* one call of tick(); a JSR is not explored beyond MaxStack return addresses
Tick ==
    /\ ~panicked
    /\ IF tick_panics(cpu)
       THEN /\ panicked' = TRUE
            /\ UNCHANGED <<cpu, prev, prev2, log, last, since>>
       ELSE /\ BitAnd(fetch(cpu), 61440) = 8192 => Len(cpu.sp) < MaxStack
            /\ \E random \in RandomBytes : cpu' = tick(cpu, random)
            /\ prev' = cpu
            /\ prev2' = prev
            /\ log' = Logged([opcode |-> fetch(cpu), pc |-> cpu.pc,
                              sp |-> cpu.sp, to |-> cpu'.pc])
            /\ last' = [NoOperation EXCEPT !.op = "tick"]
            /\ since' = SinceTick(fetch(cpu))
            /\ UNCHANGED panicked

\* the host writes `value` through key_mut(keycode)
KeyMutWith(keycode, value) ==
    /\ ~panicked
    /\ cpu' = key_mut(cpu, keycode, value)
    /\ last' = [op |-> "key_mut", keycode |-> keycode, value |-> value,
                returned |-> FALSE]
    /\ UNCHANGED <<panicked, prev, prev2, log, since>>

\* the same for a key of `codes`, pressed or released
KeyMutOf(codes) ==
    \E keycode \in codes, value \in BOOLEAN : KeyMutWith(keycode, value)

\* one call of tick_timers(); not explored beyond MaxTimerCalls calls since
\* the timers were last set
TickTimers ==
    /\ ~panicked
    /\ since.delay_calls < MaxTimerCalls /\ since.sound_calls < MaxTimerCalls
    /\ cpu' = tick_timers(cpu)
    /\ last' = [op |-> "tick_timers", keycode |-> 0, value |-> FALSE,
                returned |-> tick_timers_returns(cpu)]
    /\ since' = [since EXCEPT
                    !.delay_calls = since.delay_calls + 1,
                    !.sound_calls = since.sound_calls + 1,
                    !.buzzes = since.buzzes +
                                 (IF tick_timers_returns(cpu) THEN 1 ELSE 0)]
    /\ UNCHANGED <<panicked, prev, prev2, log>>

Next == Tick /\ UNCHANGED host

KeyMut == KeyMutOf(KeyCodes)
KeyStroke == KeyMutOf(WaitCodes)

\* the host loop of chip8.rs, seen from the keypad: key events and tick()
NextKeys == (Tick /\ UNCHANGED host) \/ (KeyMut /\ UNCHANGED host)
NextWait == (Tick /\ UNCHANGED host) \/ (KeyStroke /\ UNCHANGED host)

\* the host loop of chip8.rs, seen from the timers: tick_timers() and tick()
NextTimers == (Tick /\ UNCHANGED host) \/ (TickTimers /\ UNCHANGED host)

\* The 'running loop of chip8.rs, statement by statement.  host.at is the
\* statement the loop is at: "poll" the for loop over event_pump.poll_iter(),
\* "timers" the call of tick_timers(), "tick" the call of tick(), "done"
\* after break 'running.

\* the events SDL delivers: a key of the keypad going down or up, and Quit
HostEvents ==
    { [kind |-> k, key |-> "Num3"] : k \in {"KeyDown", "KeyUp"} }
    \cup { [kind |-> "Quit", key |-> "none"] }

\* the key state after one more event
Stamp(keys, event) ==
    IF event.kind = "Quit" THEN keys
    ELSE key_mut(keys, map_key(event.key), event.kind = "KeyDown")

\* the user strikes a key or closes the window: SDL queues the event; no
\* event follows a Quit
HostEvent ==
    /\ ~panicked /\ host.at # "done"
    /\ Len(host.pending) < MaxPending
    /\ \A k \in 1..Len(host.pending) : host.pending[k].kind # "Quit"
    /\ \E event \in HostEvents :
          host' = [host EXCEPT !.pending = Append(host.pending, event),
                               !.arrived = Stamp(host.arrived, event)]
    /\ UNCHANGED <<cpu, panicked, prev, prev2, log, last, since>>

\* one pass of the for loop: the next queued event is handled
HostPoll ==
    /\ host.at = "poll" /\ host.pending # << >>
    /\ LET event == Head(host.pending)
       IN  IF event.kind = "Quit"
           THEN /\ ~panicked
                /\ host' = [host EXCEPT !.pending = Tail(host.pending),
                                        !.at = "done"]
                /\ UNCHANGED <<cpu, panicked, prev, prev2, log, last, since>>
           ELSE /\ KeyMutWith(map_key(event.key), event.kind = "KeyDown")
                /\ host' = [host EXCEPT !.pending = Tail(host.pending)]

\* the queue is empty and the for loop ends: counter += 1, and the test
\* counter == TICKS_PER_TIMER
HostCount ==
    /\ ~panicked
    /\ host.at = "poll" /\ host.pending = << >>
    /\ host' = [host EXCEPT
                   !.counter = host.counter + 1,
                   !.at = IF host.counter + 1 = TICKS_PER_TIMER
                          THEN "timers" ELSE "tick",
                   !.stamped = host.arrived]
    /\ UNCHANGED <<cpu, panicked, prev, prev2, log, last, since>>

\* a host that never sets its counter back
HostTimersKeepCounting ==
    /\ host.at = "timers"
    /\ host.timer_calls < MaxPeriods
    /\ TickTimers
    /\ host' = [host EXCEPT
                   !.at = "tick",
                   !.gap = host.ticks_since,
                   !.ticks_since = 0,
                   !.timer_calls = host.timer_calls + 1]

\* if cpu.tick_timers() { info!("BEEP!") }; counter = 0
HostTimers ==
    /\ host.at = "timers"
    /\ host.timer_calls < MaxPeriods
    /\ TickTimers
    /\ host' = [host EXCEPT
                   !.counter = 0,
                   !.at = "tick",
                   !.gap = host.ticks_since,
                   !.ticks_since = 0,
                   !.timer_calls = host.timer_calls + 1]

\* cpu.tick(), then draw_screen() and the sleep, which change nothing here;
\* a run is not explored beyond TICKS_PER_TIMER ticks without tick_timers()
HostTick ==
    /\ host.at = "tick"
    /\ host.ticks_since <= TICKS_PER_TIMER
    /\ Tick
    /\ host' = IF tick_panics(cpu) THEN host
               ELSE [host EXCEPT !.at = "poll",
                                 !.ticks_since = host.ticks_since + 1]

NextHost == HostEvent \/ HostPoll \/ HostCount \/ HostTimers \/ HostTick

Spec == Init /\ [][Next]_vars

InitDraw == InitWith(DrawRoms)
SpecDraw == InitDraw /\ [][Next]_vars

InitAlu == InitWith(AluRoms)
SpecAlu == InitAlu /\ [][Next]_vars

InitStack == InitWith(StackRoms)
SpecStack == InitStack /\ [][Next]_vars

InitStore == InitWith(StoreRoms)
SpecStore == InitStore /\ [][Next]_vars

InitBcd == InitWith(BcdRoms)
SpecBcd == InitBcd /\ [][Next]_vars

InitKeys == InitWith(KeyRoms)
SpecKeys == InitKeys /\ [][NextKeys]_vars

InitTimers == InitWith(TimerRoms)
SpecTimers == InitTimers /\ [][NextTimers]_vars

InitWait == InitWith(WaitRoms)
SpecWait == InitWait /\ [][NextWait]_vars

InitSkip == InitWith(SkipRoms)
SpecSkip == InitSkip /\ [][Next]_vars

InitJmi == InitWith(JmiRoms)
SpecJmi == InitJmi /\ [][Next]_vars

InitFont == InitWith(FontRoms)
SpecFont == InitFont /\ [][Next]_vars

InitAddConst == InitWith(AddConstRoms)
SpecAddConst == InitAddConst /\ [][Next]_vars

InitEnd == InitWith(EndRoms)
SpecEnd == InitEnd /\ [][Next]_vars

InitHost == InitWith(HostRoms)
SpecHost == InitHost /\ [][NextHost]_vars

----------------------------------------------------------------------------
(* What the last tick() was: read from the history variables *)

Ticked == Len(log) > 0 /\ last.op = "tick"
LastOp == log[Len(log)].opcode
LastGroup == LastOp \div 4096
LastX == (LastOp \div 256) % 16
LastY == (LastOp \div 16) % 16
LastN == LastOp % 16
LastKK == LastOp % 256

LastIs8(n) == Ticked /\ LastGroup = 8 /\ LastN = n
LastIsAddReg == LastIs8(4)
LastIsSubReg == LastIs8(5)
LastIsShr == LastIs8(6)
LastIsRsb == LastIs8(7)
LastIsShl == LastIs8(14)
LastIsDrw == Ticked /\ LastGroup = 13
LastIsJsr == Ticked /\ LastGroup = 2
LastIsRts == Ticked /\ LastOp = 238

\* jump, call, return and skip opcodes, and a WAITKEY that found no key pressed
LastIsControl ==
    \/ LastGroup \in {1, 2, 11}
    \/ LastOp = 238
    \/ LastGroup \in {3, 4, 5, 9}
    \/ LastGroup = 14 /\ LastKK \in {158, 161}
LastIsBlockedWaitkey ==
    LastGroup = 15 /\ LastKK = 10 /\ \A k \in 0..15 : ~prev.key[k]

\* the words tick() decodes to no handler
Unmatched(opcode) ==
    LET g == opcode \div 4096
        n == opcode % 16
        kk == opcode % 256
    IN  \/ g = 0 /\ opcode \notin {224, 238}
        \/ g = 8 /\ n \notin {0, 1, 2, 3, 4, 5, 6, 7, 14}
        \/ g = 14 /\ kk \notin {158, 161}
        \/ g = 15 /\ kk \notin {7, 10, 21, 24, 30, 41, 51, 85, 101}

----------------------------------------------------------------------------
(* C1 *)

\* C1: every fetched word that is not a jump, call, return, skip or blocked
\* WAITKEY -- unrecognised words included -- leaves PC = (PC + 2) mod 2^16.
C1_PcAdvance ==
    (Ticked /\ ~LastIsControl /\ ~LastIsBlockedWaitkey)
        => cpu.pc = (prev.pc + 2) % U16

----------------------------------------------------------------------------
(* C2 - C5: the ALU opcodes *)

\* operands of the last 8XYn opcode, as they were before it ran
LastA == prev.register[LastX]
LastB == prev.register[LastY]

\* C2: after ADD.R X,Y with V[X] = a, V[Y] = b (X # F): V[X] = (a + b) mod 256
\* and VF = 1 if a + b >= 256, otherwise VF = 0, whatever VF held before.
C2_AddReg ==
    (LastIsAddReg /\ LastX # 15) =>
        /\ cpu.register[LastX] = (LastA + LastB) % 256
        /\ cpu.register[15] = (IF LastA + LastB >= 256 THEN 1 ELSE 0)

\* C3: after SUB.R X,Y (X # F): V[X] = (a - b) mod 256 and VF = 1 iff a >= b;
\* after RSB X,Y (X # F): V[X] = (b - a) mod 256 and VF = 1 iff b >= a.
C3_SubBorrow ==
    /\ (LastIsSubReg /\ LastX # 15) =>
            /\ cpu.register[LastX] = (LastA - LastB) % 256
            /\ cpu.register[15] = (IF LastA >= LastB THEN 1 ELSE 0)
    /\ (LastIsRsb /\ LastX # 15) =>
            /\ cpu.register[LastX] = (LastB - LastA) % 256
            /\ cpu.register[15] = (IF LastB >= LastA THEN 1 ELSE 0)

\* C4: after SHL X (X # F) with V[X] = a: VF = (a >> 7) & 1, V[X] = (a << 1)
\* mod 256, and V[Y] (a register the opcode does not write) is unchanged.
C4_Shl ==
    (LastIsShl /\ LastX # 15) =>
        /\ cpu.register[15] = (LastA \div 128) % 2
        /\ cpu.register[LastX] = (LastA * 2) % 256
        /\ LastY \notin {LastX, 15} => cpu.register[LastY] = LastB

\* C5 (as amended): after SHR X (X # F) with V[X] = a: VF = a & 1 and
\* V[X] = a >> 1; V[Y] is unchanged whenever Y is neither X nor F.
C5_Shr ==
    (LastIsShr /\ LastX # 15) =>
        /\ cpu.register[15] = LastA % 2
        /\ cpu.register[LastX] = LastA \div 2
        /\ LastY \notin {LastX, 15} => cpu.register[LastY] = LastB

\* C5 as first stated: V[Y] is unchanged for every Y.
C5_ShrAnyY ==
    (LastIsShr /\ LastX # 15) =>
        /\ cpu.register[15] = LastA % 2
        /\ cpu.register[LastX] = LastA \div 2
        /\ cpu.register[LastY] = LastB

\* a SHR of an odd value that found the opposite flag in VF, with Y a third register
C5_Witness ==
    /\ LastIsShr /\ LastX # 15 /\ LastY \notin {LastX, 15}
    /\ LastA % 2 = 1 /\ LastA > 1 /\ LastB # LastA \div 2
    /\ prev.register[15] # 1
    /\ cpu.register[15] = 1

----------------------------------------------------------------------------
(* C6 - C8: the sprite blitter *)

\* the framebuffer cells under the set bits of the sprite the last DRW drew:
\* row r, column c of the sprite is bit 7 - c of mem[I + r] and lands on cell
\* ((V[Y] + r) mod 32) * 64 + ((V[X] + c) mod 64)
SpriteCells(s, vx, vy, n) ==
    { ((vy + rc[1]) % 32) * 64 + ((vx + rc[2]) % 64) :
        rc \in { q \in (0..(n - 1)) \X (0..7) :
                    (mem(s, s.i + q[1]) \div (2 ^ (7 - q[2]))) % 2 = 1 } }
LastCells == SpriteCells(prev, prev.register[LastX], prev.register[LastY], LastN)

\* C6: after any DRW, VF = 1 iff a set sprite pixel landed on a lit cell, and
\* VF = 0 otherwise, whatever VF held before.
C6_CollisionFlag ==
    LastIsDrw =>
        cpu.register[15] = (IF LastCells \cap prev.screen # {} THEN 1 ELSE 0)

\* C7: the same DRW executed twice in a row, with I, V[X], V[Y] and the sprite
\* bytes the same at both, leaves the framebuffer as it was before the first.
C7_Involution ==
    ( /\ Len(log) >= 2 /\ LastIsDrw
      /\ log[Len(log) - 1].opcode = LastOp
      /\ prev.i = prev2.i
      /\ prev.register[LastX] = prev2.register[LastX]
      /\ prev.register[LastY] = prev2.register[LastY]
      /\ \A r \in 0..(LastN - 1) : mem(prev, prev.i + r) = mem(prev2, prev2.i + r) )
    => cpu.screen = prev2.screen

\* two equal draws of a sprite that wraps at the right and at the bottom edge,
\* onto a framebuffer that already had lit cells, some of them under the sprite
C7_Witness ==
    /\ Len(log) >= 2 /\ LastIsDrw
    /\ log[Len(log) - 1].opcode = LastOp
    /\ prev.i = prev2.i
    /\ prev.register[LastX] = prev2.register[LastX]
    /\ prev.register[LastY] = prev2.register[LastY]
    /\ prev.register[LastX] % 64 > 56 /\ prev.register[LastY] % 32 > 27
    /\ LastN = 5
    /\ prev2.screen # {} /\ prev2.screen \cap LastCells # {}
    /\ LastCells \ prev2.screen # {}
    /\ prev.screen # prev2.screen
    /\ cpu.screen = prev2.screen

\* C8: a DRW toggles exactly the cells under the set bits of the sprite (MSB
\* leftmost, origin and offsets taken modulo 64 and 32); every other cell of
\* the framebuffer is unchanged.
C8_Geometry ==
    LastIsDrw =>
        LET toggled == LastCells
        IN  cpu.screen = (prev.screen \ toggled) \cup (toggled \ prev.screen)

\* a draw with V[X] > 63 and V[Y] > 31 that wraps at both edges, turns cells on
\* and off, and leaves a lit cell under a zero sprite bit alone
C8_Witness ==
    /\ LastIsDrw /\ LastN = 15
    /\ prev.register[LastX] = 255 /\ prev.register[LastY] = 255
    /\ \E p \in LastCells : p % 64 = 63
    /\ \E p \in LastCells : p % 64 = 0
    /\ \E p \in LastCells : p \div 64 = 31
    /\ \E p \in LastCells : p \div 64 = 0
    /\ LastCells \cap prev.screen # {}
    /\ LastCells \ prev.screen # {}
    /\ prev.screen \ LastCells # {}
    /\ cpu.screen # prev.screen
    /\ cpu.screen \cap prev.screen # {}

----------------------------------------------------------------------------
(* C9 - C10: the return stack *)

\* the calls and returns among the logged ticks
IsJsr(e) == e.opcode \div 4096 = 2
IsRts(e) == e.opcode = 238
StackOps == SelectSeq(log, LAMBDA e : IsJsr(e) \/ IsRts(e))

\* the last 2n calls and returns are n calls followed by n returns
CallsThenReturns(n) ==
    /\ Len(StackOps) >= 2 * n
    /\ \A k \in 1..n : IsJsr(StackOps[Len(StackOps) - 2 * n + k])
    /\ \A k \in 1..n : IsRts(StackOps[Len(StackOps) - n + k])

\* the program of the example: calls of 0x400, 0x430, 0x440 and three returns
ExampleRun ==
    /\ Len(log) >= 6
    /\ log[1].pc = INITIAL_PC /\ log[1].sp = << >>
    /\ [k \in 1..6 |-> log[k].opcode] = <<9216, 9264, 9280, 238, 238, 238>>

\* C9: each JSR sets PC to its target; after n JSR executed at p1 .. pn, the
\* next n RTS set PC to pn + 2, ..., p1 + 2 in that order and leave the return
\* stack as it was before the first JSR.  From a fresh VM, JSR 0x400, JSR
\* 0x430, JSR 0x440 and three RTS give PCs 0x400, 0x430, 0x440, 0x432, 0x402,
\* 0x202.
C9_StackLaw ==
    /\ LastIsJsr => cpu.pc = LastOp % 4096
    /\ \A n \in 1..MaxLog :
          CallsThenReturns(n) =>
            LET ops == StackOps
                m == Len(ops)
            IN  /\ \A j \in 1..n :
                      ops[m - n + j].to = (ops[m - j + 1 - n].pc + 2) % U16
                /\ cpu.sp = ops[m - 2 * n + 1].sp
    /\ ExampleRun =>
          [k \in 1..6 |-> log[k].to] = <<1024, 1072, 1088, 1074, 1026, 514>>

\* three nested calls made below an outer call, with other instructions in
\* between, all three returned from
C9_Witness ==
    /\ CallsThenReturns(3) /\ ~CallsThenReturns(4)
    /\ StackOps[Len(StackOps) - 5].sp # << >>
    /\ \E k \in 1..Len(log) : ~IsJsr(log[k]) /\ ~IsRts(log[k])
    /\ LastIsRts
    /\ cpu.pc = (StackOps[Len(StackOps) - 5].pc + 2) % U16
    /\ cpu.sp = StackOps[Len(StackOps) - 5].sp

\* C10: an RTS executed with an empty return stack leaves PC unchanged, the
\* stack empty and every other field of the VM as it was.
C10_RtsEmpty ==
    (LastIsRts /\ prev.sp = << >>) => cpu = prev

\* an RTS that found the stack empty, in a VM whose registers and index were set
C10_Witness ==
    /\ LastIsRts /\ prev.sp = << >>
    /\ prev.register[0] = 255 /\ prev.register[15] = 1 /\ prev.i = 80
    /\ prev.pc = 518
    /\ cpu.pc = 518 /\ cpu.sp = << >>

----------------------------------------------------------------------------
(* C11 - C12: the skips *)

\* the condition of the last 3XKK, 4XKK, 5XY0 or 9XY0, on the registers it found
SkipCondition ==
    CASE LastGroup = 3 -> LastA = LastKK
      [] LastGroup = 4 -> LastA # LastKK
      [] LastGroup = 5 -> LastA = LastB
      [] LastGroup = 9 -> LastA # LastB

LastIsSkip ==
    Ticked /\ (LastGroup \in {3, 4} \/ (LastGroup \in {5, 9} /\ LastN = 0))

\* C11: after SKEQ.K, SKNE.K, SKEQ.R or SKNE.R, PC' - PC is 4 exactly when the
\* condition of the opcode holds and 2 otherwise, and nothing but PC changes.
C11_SkipLaw ==
    LastIsSkip =>
        cpu = [prev EXCEPT !.pc = prev.pc + (IF SkipCondition THEN 4 ELSE 2)]

\* a SKEQ.K that skipped, on a register that held 255
C11_Witness ==
    /\ LastIsSkip /\ LastGroup = 3 /\ LastA = 255 /\ LastKK = 255
    /\ prev.register[1] = 127
    /\ cpu.pc = prev.pc + 4
    /\ cpu.register = prev.register

LastIsSkpr == Ticked /\ LastGroup = 14 /\ LastKK = 158
LastIsSkup == Ticked /\ LastGroup = 14 /\ LastKK = 161

\* C12: SKPR advances PC by 4 iff key[V[X] & 0x0F] is pressed, else by 2;
\* SKUP advances PC by 4 iff key[V[X] & 0x0F] is not pressed, else by 2; for
\* every V[X] in 0..255.
C12_KeySkips ==
    /\ LastIsSkpr =>
          cpu.pc = prev.pc + (IF prev.key[LastA % 16] THEN 4 ELSE 2)
    /\ LastIsSkup =>
          cpu.pc = prev.pc + (IF ~prev.key[LastA % 16] THEN 4 ELSE 2)

----------------------------------------------------------------------------
(* C13 - C14: the keypad *)

\* the steps that are a write through key_mut(), a call of tick_timers()
KeyMutStep == last'.op = "key_mut" /\ panicked' = panicked
TickTimersStep == last'.op = "tick_timers" /\ panicked' = panicked

\* C13: a write of b through key_mut(c) makes key[c] = b and changes no other
\* key, for every c in 0..15; for c > 15 it changes no cell of key.
C13_KeyWrite ==
    [][ KeyMutStep =>
            IF last'.keycode <= 15
            THEN cpu'.key = [cpu.key EXCEPT ![last'.keycode] = last'.value]
            ELSE cpu'.key = cpu.key ]_vars

LastIsWaitkey == Ticked /\ LastGroup = 15 /\ LastKK = 10
PressedBefore == { k \in 0..15 : prev.key[k] }

\* C14: a WAITKEY that finds no key pressed changes no field of the VM, PC
\* included, so that the next tick executes it again; one that finds a key
\* pressed stores the lowest pressed index in V[X] and advances PC by 2.
C14_Waitkey ==
    LastIsWaitkey =>
        IF PressedBefore = {}
        THEN cpu = prev /\ fetch(cpu) = LastOp
        ELSE \E k \in PressedBefore :
                /\ \A j \in PressedBefore : k <= j
                /\ cpu = [prev EXCEPT !.register[LastX] = k, !.pc = prev.pc + 2]

\* a WAITKEY executed three times in a row at the same PC, the third time with
\* keys 3 and 14 pressed
C14_Witness ==
    /\ LastIsWaitkey /\ Len(log) >= 4
    /\ \A k \in 1..2 : /\ log[Len(log) - k].opcode = LastOp
                        /\ log[Len(log) - k].pc = log[Len(log)].pc
                        /\ log[Len(log) - k].to = log[Len(log)].pc
    /\ PressedBefore = {3, 14}
    /\ prev.register[LastX] = 200
    /\ cpu.register[LastX] = 3
    /\ cpu.pc = prev.pc + 2

----------------------------------------------------------------------------
(* C15 - C16: the timers *)

\* the buzzes due since the last SSOUND: one, once the calls of tick_timers()
\* have reached the value it stored
BuzzesDue ==
    IF since.sound_set >= 1 /\ since.sound_calls >= since.sound_set THEN 1 ELSE 0

\* C15: tick_timers() returns true iff sound = 1 at entry; after an SSOUND
\* that stored v >= 1, the following calls return true exactly once, on the
\* v-th call; with sound = 0 no call returns true.
C15_Buzzer ==
    /\ [][ TickTimersStep => (last'.returned <=> cpu.sound = 1) ]_vars
    /\ [] ( /\ since.buzzes = BuzzesDue
            /\ (last.op = "tick_timers" /\ last.returned)
                    => since.sound_calls = since.sound_set )

\* the third call of tick_timers() after an SSOUND that stored 3: the buzz
C15_Witness ==
    /\ last.op = "tick_timers" /\ last.returned
    /\ since.sound_set = 3 /\ since.sound_calls = 3 /\ since.buzzes = 1
    /\ cpu.sound = 0

\* what the delay timer holds: the value stored by the last SDELAY less the
\* calls of tick_timers() since, and no less than zero
DelayDue ==
    IF since.delay_set > since.delay_calls
    THEN since.delay_set - since.delay_calls ELSE 0

LastIsGdelay == Ticked /\ LastGroup = 15 /\ LastKK = 7

\* C16: each call of tick_timers() takes one from delay and from sound unless
\* they are zero, and changes nothing else; k calls after an SDELAY that stored
\* d make GDELAY read max(d - k, 0).
C16_Saturate ==
    /\ [][ TickTimersStep =>
              cpu' = [cpu EXCEPT
                        !.delay = IF cpu.delay > 0 THEN cpu.delay - 1 ELSE 0,
                        !.sound = IF cpu.sound > 0 THEN cpu.sound - 1 ELSE 0] ]_vars
    /\ [] ( /\ cpu.delay = DelayDue
            /\ LastIsGdelay => cpu.register[LastX] = DelayDue )

\* a GDELAY that reads 0, five calls of tick_timers() after an SDELAY stored 3
C16_Witness ==
    /\ LastIsGdelay
    /\ since.delay_set = 3 /\ since.delay_calls = 5
    /\ cpu.register[LastX] = 0 /\ cpu.delay = 0
    /\ cpu.register[1] = 3

----------------------------------------------------------------------------
(* C17 - C18: the register file in memory *)

LastIsStr == Ticked /\ LastGroup = 15 /\ LastKK = 85
LastIsLdr == Ticked /\ LastGroup = 15 /\ LastKK = 101

\* C17: STR X writes mem[I0 + k] = V[k] for every k in 0..X and no other
\* memory cell, and ends with I = I0 + X + 1, whatever the registers hold.
C17_Str ==
    LastIsStr =>
        /\ \A k \in 0..LastX : mem(cpu, prev.i + k) = prev.register[k]
        /\ \A a \in (DOMAIN cpu.memory \cup DOMAIN prev.memory) :
              a \notin prev.i..(prev.i + LastX) => mem(cpu, a) = mem(prev, a)
        /\ cpu.i = prev.i + LastX + 1

\* C18: LDR X sets V[k] = mem[I0 + k] for every k in 0..X, leaves the
\* registers above X unchanged and ends with I = I0 + X + 1, whatever the
\* registers hold.
C18_Ldr ==
    LastIsLdr =>
        /\ \A k \in 0..LastX : cpu.register[k] = mem(prev, prev.i + k)
        /\ \A k \in (LastX + 1)..15 : cpu.register[k] = prev.register[k]
        /\ cpu.i = prev.i + LastX + 1

----------------------------------------------------------------------------
(* C19 - C20: BCD *)

LastIsBcd == Ticked /\ LastGroup = 15 /\ LastKK = 51

\* C19: BCD X with V[X] = v and I = i <= 4092 leaves mem[i], mem[i+1],
\* mem[i+2] each in 0..9 with mem[i]*100 + mem[i+1]*10 + mem[i+2] = v, changes
\* no other memory cell and leaves I and V[X] (no field but memory and PC)
\* changed.
C19_BcdRoundTrip ==
    (LastIsBcd /\ prev.i <= 4092) =>
        /\ \A k \in 0..2 : mem(cpu, prev.i + k) \in 0..9
        /\ mem(cpu, prev.i) * 100 + mem(cpu, prev.i + 1) * 10
                + mem(cpu, prev.i + 2) = LastA
        /\ \A a \in (DOMAIN cpu.memory \cup DOMAIN prev.memory) :
              a \notin prev.i..(prev.i + 2) => mem(cpu, a) = mem(prev, a)
        /\ [cpu EXCEPT !.memory = prev.memory] = [prev EXCEPT !.pc = prev.pc + 2]

\* the conversion of 123 from VB at I = 0x300: the digits 1, 2, 3
C19_Witness ==
    /\ LastIsBcd /\ LastX = 11 /\ LastA = 123 /\ prev.i = 768
    /\ <<mem(prev, 768), mem(prev, 769), mem(prev, 770)>> = <<0, 0, 0>>
    /\ <<mem(cpu, 768), mem(cpu, 769), mem(cpu, 770)>> = <<1, 2, 3>>
    /\ cpu.i = 768 /\ cpu.register[11] = 123

\* C20: BCD with I > 4092 changes no field but PC, which advances by 2, and
\* does not panic; with I <= 4092 the three digits are written.
C20_BcdRange ==
    LastIsBcd =>
        /\ ~panicked
        /\ prev.i > 4092 => cpu = [prev EXCEPT !.pc = prev.pc + 2]
        /\ prev.i <= 4092 =>
              <<mem(cpu, prev.i), mem(cpu, prev.i + 1), mem(cpu, prev.i + 2)>>
                = <<LastA \div 100, (LastA \div 10) % 10, LastA % 10>>

\* a BCD of 255 that found I = 4095 + 255, beyond memory, and was skipped
C20_Witness ==
    /\ LastIsBcd /\ LastA = 255 /\ prev.i = 4350
    /\ ~panicked
    /\ cpu.pc = prev.pc + 2 /\ cpu.memory = prev.memory /\ cpu.i = 4350

----------------------------------------------------------------------------
(* C21: the indexed jump *)

LastIsJmi == Ticked /\ LastGroup = 11

\* C21: JMI NNN leaves PC = (NNN + V[0]) mod 2^12, so PC < 4096, and changes
\* nothing else.
C21_Jmi ==
    LastIsJmi =>
        /\ cpu.pc < MEMORY_SIZE
        /\ cpu = [prev EXCEPT !.pc = (op_address(LastOp) + prev.register[0]) % 4096]

----------------------------------------------------------------------------
(* C22: the fontset *)

LastIsFont == Ticked /\ LastGroup = 15 /\ LastKK = 41

\* memory 0x050..0x09F of `self` holds the 80 bytes of FONTSET
FontsetAt(self) ==
    \A k \in 1..Len(FONTSET) : mem(self, FONTSET_ADDRESS + k - 1) = FONTSET[k]

\* memory from 0x200 on holds the bytes of `rom`, and zeroes after them
RomAt(self, rom) ==
    \A a \in INITIAL_PC..(MEMORY_SIZE - 1) :
        mem(self, a) = IF a - INITIAL_PC < Len(rom) THEN rom[a - INITIAL_PC + 1] ELSE 0

\* C22: after new() and load_rom() of a ROM that fits, memory 0x050..0x09F is
\* the fontset, the ROM bytes are at 0x200 + i and the rest of memory below
\* 0x200 is zero; and FONT X with V[X] = d <= 15, run on an intact fontset,
\* leaves I = 0x050 + 5 d with the glyph of d at mem[I..I+5].
C22_Fontset ==
    /\ last.op = "none" =>
          /\ FontsetAt(cpu)
          /\ \E rom \in FontRoms : Len(rom) <= 3584 /\ RomAt(cpu, rom)
          /\ \A a \in 0..(INITIAL_PC - 1) :
                (a < FONTSET_ADDRESS \/ a >= FONTSET_ADDRESS + Len(FONTSET))
                    => mem(cpu, a) = 0
    /\ (LastIsFont /\ LastA <= 15 /\ FontsetAt(prev)) =>
          /\ cpu.i = 80 + 5 * LastA
          /\ \A k \in 0..4 : mem(cpu, cpu.i + k) = FONTSET[5 * LastA + k + 1]
          /\ cpu = [prev EXCEPT !.i = 80 + 5 * LastA, !.pc = prev.pc + 2]

\* FONT F with V[F] = 15 in the ROM of 0xE00 bytes: I = 0x09B, at the glyph
\* of F
C22_Witness ==
    /\ LastIsFont /\ LastX = 15 /\ LastA = 15
    /\ mem(cpu, 4094) = 31 /\ mem(cpu, 4095) = 254
    /\ FontsetAt(prev)
    /\ cpu.i = 155
    /\ <<mem(cpu, 155), mem(cpu, 156), mem(cpu, 157), mem(cpu, 158), mem(cpu, 159)>>
         = <<240, 128, 240, 128, 128>>

----------------------------------------------------------------------------
(* C23: addition of a constant *)

LastIsAddConst == Ticked /\ LastGroup = 7

\* C23: ADD.K X,KK with X # F leaves V[X] = (V[X] + KK) mod 256 and PC + 2,
\* and changes nothing else: not VF, whether or not the sum wraps, and no
\* other register.
C23_AddConst ==
    (LastIsAddConst /\ LastX # 15) =>
        /\ cpu.register[15] = prev.register[15]
        /\ cpu = [prev EXCEPT !.register[LastX] = (LastA + LastKK) % 256,
                              !.pc = prev.pc + 2]

\* 255 + 1 in V7 wraps to 0 and VF stays 0
C23_Witness ==
    /\ LastIsAddConst /\ LastX = 7 /\ LastA = 255 /\ LastKK = 1
    /\ prev.register[15] = 0
    /\ cpu.register[7] = 0 /\ cpu.register[15] = 0

----------------------------------------------------------------------------
(* C24: the width of PC *)

\* C24: PC < 4096 in every reachable state: the advances by 2 and by 4 wrap
\* modulo 2^12, so that an opcode at 0xFFE that is no jump leaves PC = 0x000.
C24_PcTwelveBits ==
    /\ cpu.pc < MEMORY_SIZE
    /\ (Ticked /\ prev.pc = 4094 /\ ~LastIsControl) => cpu.pc = 0

----------------------------------------------------------------------------
(* C25: the host loop *)

\* C25: when the host loop reaches tick_timers() or tick(), key[] holds the
\* state that every event queued before the end of the iteration's event loop
\* amounts to; the loop never runs more than TICKS_PER_TIMER calls of tick()
\* without a call of tick_timers(); and between two consecutive calls of
\* tick_timers() exactly TICKS_PER_TIMER calls of tick() have run.
C25_HostPacing ==
    /\ host.at \in {"timers", "tick"} =>
          /\ cpu.key = host.stamped.key
          /\ cpu.unknown_key = host.stamped.unknown_key
    /\ host.ticks_since <= TICKS_PER_TIMER
    /\ host.timer_calls >= 2 => host.gap = TICKS_PER_TIMER
    /\ host.timer_calls = 1 => host.gap = TICKS_PER_TIMER - 1

\* the second call of tick_timers() has just returned, ten calls of tick()
\* after the first, and the loop is about to call tick() with key 3 down, a
\* key that was up at the tick() before
C25_Witness ==
    /\ host.at = "tick" /\ host.timer_calls = 2 /\ host.gap = 10
    /\ host.ticks_since = 0 /\ last.op = "tick_timers"
    /\ cpu.key[3] /\ ~prev.key[3]
    /\ host.pending = << >>

----------------------------------------------------------------------------
(* C26: memory accesses *)

\* C26: whatever the ROM and the key events, no tick() touches an address
\* beyond 4095: neither mem() / mem_mut() nor a direct index of memory ever
\* panics.
C26_NoFatalAccess == ~panicked /\ ~tick_panics(cpu)

====
